---- MODULE Spec2Model ----
(***************************************************************************)
(* Scoring policy and swipe persistence of the dating application.         *)
(*                                                                         *)
(* Numbers.  The scoring code works on JavaScript numbers.  They are       *)
(* modelled as exact fixed-point rationals: an integer x "at scale k"      *)
(* stands for the number x / k.  One scoring step divides by 100, so a     *)
(* value at scale k goes in and a value at scale 100 * k comes out, with   *)
(* no rounding anywhere in the model of the arithmetic.                    *)
(***************************************************************************)
EXTENDS Integers, FiniteSets, Sequences, TLC

\* ------------------------------------------------------------------ bounds

\* Inputs of the pure functions are multiples of 1 / ArgScale ...
ArgScale == 2
\* ... ranging from -ArgMargin to 100 + ArgMargin points.
ArgMargin == 60

\* Accounts that may sign in.
MaxUsers == 2
\* Requests the server handles at the same time.
MaxInFlight == 2
\* Requests the server accepts in one run.
MaxRequests == 4
\* Requests of a run that also updates profiles and reads credits.
MaxProfileRequests == 3
\* Requests of a run of one account that spends its credits.
MaxCreditRequests == 12
\* Rows of the matches table in a run of the storage operations.
MaxMatches == 1
\* Profiles in a run of the candidate queries, and swipes in such a run.
MaxCandidates == 3
MaxSwipes == 2
\* Ticks of the clock in a day, and the last tick of a run.
TicksPerDay == 2
MaxTime == 3

\* --------------------------------------------------------- program constants

\* profiles.score: integer("score").default(70)
DefaultScore == 70

\* createProfile: credits start at amount 10
DefaultCredits == 10

\* refreshCredits: amount: 10
RefreshedCredits == 10

\* ------------------------------------------------------------- arithmetic

Min(a, b) == IF a < b THEN a ELSE b

Max(a, b) == IF a > b THEN a ELSE b

\* ---------------------------------------------------------- scoring policy

\* calculateNewScore without the defensive normalisation of its input.
calculateNewScore_NoClamp(currentScore, scale, isLiked) ==
  LET full == 100 * scale
      boost == Max(50 * scale, 3 * (full - currentScore))
      penalty == Max(30 * scale, 2 * currentScore)
  IN  IF isLiked
        THEN Min(100 * full, 100 * currentScore + boost)
        ELSE Max(0, 100 * currentScore - penalty)

\* calculateNewScore with the boost and the penalty exchanged.
calculateNewScore_Swapped(currentScore, scale, isLiked) ==
  LET full == 100 * scale
      normalizedScore == Max(0, Min(full, currentScore))
      boost == Max(50 * scale, 3 * (full - normalizedScore))
      penalty == Max(30 * scale, 2 * normalizedScore)
  IN  IF isLiked
        THEN Max(0, 100 * normalizedScore - penalty)
        ELSE Min(100 * full, 100 * normalizedScore + boost)

\* calculateNewScore with the floors of boost and penalty left out.
calculateNewScore_NoFloor(currentScore, scale, isLiked) ==
  LET full == 100 * scale
      normalizedScore == Max(0, Min(full, currentScore))
      boost == 3 * (full - normalizedScore)
      penalty == 2 * normalizedScore
  IN  IF isLiked
        THEN Min(100 * full, 100 * normalizedScore + boost)
        ELSE Max(0, 100 * normalizedScore - penalty)

\* calculateNewScore with the clamps of the result left out.
calculateNewScore_NoResultClamp(currentScore, scale, isLiked) ==
  LET full == 100 * scale
      normalizedScore == Max(0, Min(full, currentScore))
      boost == Max(50 * scale, 3 * (full - normalizedScore))
      penalty == Max(30 * scale, 2 * normalizedScore)
  IN  IF isLiked
        THEN 100 * normalizedScore + boost
        ELSE 100 * normalizedScore - penalty

\* calculateNewScore with the penalty's factor 2 used for the boost as well.
calculateNewScore_BoostTwo(currentScore, scale, isLiked) ==
  LET full == 100 * scale
      normalizedScore == Max(0, Min(full, currentScore))
      boost == Max(50 * scale, 2 * (full - normalizedScore))
      penalty == Max(30 * scale, 2 * normalizedScore)
  IN  IF isLiked
        THEN Min(100 * full, 100 * normalizedScore + boost)
        ELSE Max(0, 100 * normalizedScore - penalty)

\* calculateNewScore with a boost that grows with the score: 3 * (n/100).
calculateNewScore_BoostGrows(currentScore, scale, isLiked) ==
  LET full == 100 * scale
      normalizedScore == Max(0, Min(full, currentScore))
      boost == Max(50 * scale, 3 * normalizedScore)
      penalty == Max(30 * scale, 2 * normalizedScore)
  IN  IF isLiked
        THEN Min(100 * full, 100 * normalizedScore + boost)
        ELSE Max(0, 100 * normalizedScore - penalty)

\* calculateNewScore with a penalty that shrinks with the score: 2 * (1 - n/100).
calculateNewScore_PenaltyShrinks(currentScore, scale, isLiked) ==
  LET full == 100 * scale
      normalizedScore == Max(0, Min(full, currentScore))
      boost == Max(50 * scale, 3 * (full - normalizedScore))
      penalty == Max(30 * scale, 2 * (full - normalizedScore))
  IN  IF isLiked
        THEN Min(100 * full, 100 * normalizedScore + boost)
        ELSE Max(0, 100 * normalizedScore - penalty)

\* calculateNewScore(currentScore, isLiked): currentScore is at `scale`, the
\* result at 100 * scale.  With full = 100 * scale (the number 100 at scale):
\*   normalizedScore / 100     is  normalizedScore           at 100 * scale
\*   3 * (1 - normalized/100)  is  3 * (full - normalized)   at 100 * scale
\*   0.5, 0.3                  are 50 * scale, 30 * scale    at 100 * scale
\*   2 * (normalized / 100)    is  2 * normalized            at 100 * scale
calculateNewScore(currentScore, scale, isLiked) ==
  LET full == 100 * scale
      normalizedScore == Max(0, Min(full, currentScore))
      boost == Max(50 * scale, 3 * (full - normalizedScore))
      penalty == Max(30 * scale, 2 * normalizedScore)
  IN  IF isLiked
        THEN Min(100 * full, 100 * normalizedScore + boost)
        ELSE Max(0, 100 * normalizedScore - penalty)

\* calculateShowProbability without the lower bound 0.2.
calculateShowProbability_NoFloor(score, scale) ==
  LET one == (100 * scale) * (100 * scale)
  IN  8 * one - 6 * score * score

\* calculateShowProbability with a linear score factor: (score / 100) * 0.6.
calculateShowProbability_Linear(score, scale) ==
  LET one == (100 * scale) * (100 * scale)
  IN  Max(2 * one, 8 * one - 6 * score * (100 * scale))

\* calculateShowProbability with the score factor added to the baseline.
calculateShowProbability_Added(score, scale) ==
  LET one == (100 * scale) * (100 * scale)
  IN  Max(2 * one, 8 * one + 6 * score * score)

\* calculateShowProbability(score): score is at `scale`, the result at
\* 10 * (100 * scale)^2.  With one = (100 * scale)^2:
\*   baseline 0.8                  is  8 * one
\*   Math.pow(score/100, 2) * 0.6  is  6 * score^2
\*   0.2                           is  2 * one
calculateShowProbability(score, scale) ==
  LET one == (100 * scale) * (100 * scale)
      baseline == 8 * one
      scoreFactor == 6 * score * score
  IN  Max(2 * one, baseline - scoreFactor)

\* updateScore without the upper clamp of the new score.
updateScoreValue_NoMin(score, scale, isLiked) ==
  LET full == 100 * scale
      boost == Max(50 * scale, 3 * (full - score))
      penalty == Max(30 * scale, 2 * score)
  IN  IF isLiked
        THEN 100 * score + boost
        ELSE Max(0, 100 * score - penalty)

\* The new score DatabaseStorage.updateScore computes from the stored
\* profile.score (at `scale`; the result is at 100 * scale).  The stored
\* value is used as it is read.
updateScoreValue(score, scale, isLiked) ==
  LET full == 100 * scale
      boost == Max(50 * scale, 3 * (full - score))
      penalty == Max(30 * scale, 2 * score)
  IN  IF isLiked
        THEN Min(100 * full, 100 * score + boost)
        ELSE Max(0, 100 * score - penalty)

\* ------------------------------------------------------------------- state

VARIABLES
  currentScore,   \* argument of the scoring call, at ArgScale
  isLiked,        \* argument of the scoring call
  called,         \* the call has returned
  result,         \* what calculateNewScore returned, at 100 * ArgScale
  newScore,       \* what updateScore computed for the same stored value
  otherScore,     \* argument of a second scoring call, at ArgScale
  otherResult,    \* what calculateNewScore returned for otherScore
  twice,          \* calculateNewScore applied to result, at 10000 * ArgScale
  probability,    \* what calculateShowProbability returned for currentScore
  otherProbability, \* what calculateShowProbability returned for otherScore
  profiles,       \* table profiles: id -> [userId, score, gender, interestedIn]
  credits,        \* table credits: profileId -> [amount, lastRefreshed]
  likes,          \* table likes: the (likerId, likedId) pairs that have a row
  matches,        \* table matches: the rows (profileId1, profileId2), by id
  req,            \* the requests being handled: slot -> handler state
  response,       \* the response sent last
  started,        \* number of requests accepted so far
  now,            \* the server's clock, in ticks
  candidates,     \* the last call of getPotentialMatches and what it returned
  likedPairs      \* history the handlers keep: the (likerId, likedId) pairs
                  \* whose row a like request inserted

fnVars == <<currentScore, isLiked, called, result, newScore,
           otherScore, otherResult, twice, probability, otherProbability>>

dbVars == <<profiles, credits, likes, matches>>

\* The clock, the answer of the last candidate query and the history.
auxVars == <<now, candidates, likedPairs>>

vars == <<fnVars, dbVars, req, response, started, auxVars>>

\* --------------------------------------------------------------- database

Users == 1 .. MaxUsers

Slots == 1 .. MaxInFlight

\* A profile id a request may name: 0 is never the id of a profile.
TargetIds == 0 .. MaxUsers

ProfileIds == DOMAIN profiles

\* genderEnum and interestedInEnum: the values the model tells apart.
Genders == {"male", "female"}

InterestedIn == Genders \cup {"everyone"}

\* new Date() with setHours(0, 0, 0, 0): the start of the day of `time`.
startOfDay(time) == time - (time % TicksPerDay)

\* No candidate query has been answered yet.
NoCandidates == [profileId |-> 0, limit |-> 0, offset |-> 0, rows |-> <<>>]

\* insertProfileSchema with score left among its fields.
insertProfileSchema_KeepsScore(body) ==
  [field \in DOMAIN body \ {"id", "userId", "createdAt", "updatedAt"} |->
     body[field]]

\* insertProfileSchema.parse(body): the schema omits id, userId, score,
\* createdAt and updatedAt, and parsing drops the keys the schema lacks.
insertProfileSchema(body) ==
  [field \in DOMAIN body \ {"id", "userId", "score", "createdAt", "updatedAt"} |->
     body[field]]

\* db.insert(profiles).values({...profile, userId}): the row of the new
\* profile; a column the values do not name takes its default.
newProfileRow(profile, userId) ==
  [userId |-> userId,
   score |-> IF "score" \in DOMAIN profile THEN profile.score ELSE DefaultScore,
   gender |-> profile.gender,
   interestedIn |-> profile.interestedIn]

\* db.update(profiles).set({...profile}): the row after the update.
updatedProfileRow(row, profile) ==
  [column \in DOMAIN row |->
     IF column \in DOMAIN profile THEN profile[column] ELSE row[column]]

\* getProfileByUserId: the ids of the profiles of user u (none or one).
profilesOfUser(u) == {id \in ProfileIds : profiles[id].userId = u}

\* profiles.score is an integer column, and updateScore hands it a number
\* that mostly has a fractional part (value is at scale 100).  An integral
\* value is stored as it is.  What becomes of any other value is decided by
\* the database and its driver, which are no part of the program: the write
\* is refused with an error (see ScoreWrite and updateScore), or the value
\* is converted to integer, which rounds to the nearest integer; a value
\* half-way between two integers goes to either, as the conversions of the
\* numeric and of the floating-point types differ there.
IntegerColumn(value) ==
  LET whole == value \div 100
      fraction == value % 100
  IN  IF fraction = 0 THEN {whole}
      ELSE IF fraction < 50 THEN {whole}
      ELSE IF fraction > 50 THEN {whole + 1}
      ELSE {whole, whole + 1}

IsIntegral(value) == value % 100 = 0

\* ---------------------------------------------------------------- requests

\* A request without a body.
NoBody == [field \in {} |-> 0]

Idle == [pc |-> "idle", kind |-> "none", user |-> 0, profileId |-> 0,
         target |-> 0, body |-> NoBody, amount |-> 0, readScore |-> 0,
         updatedScore |-> 0]

NoResponse == [kind |-> "none", user |-> 0, target |-> 0, status |-> 0,
               message |-> "", isMatch |-> FALSE]

\* The handler of slot r sends its response and ends.
Respond(r, status, message, isMatch) ==
  /\ req' = [req EXCEPT ![r] = Idle]
  /\ response' = [kind |-> req[r].kind, user |-> req[r].user,
                  target |-> req[r].target, status |-> status,
                  message |-> message, isMatch |-> isMatch]

\* The handler of slot r goes on to its next database call.
Goto(r, pc) ==
  /\ req' = [req EXCEPT ![r].pc = pc]
  /\ UNCHANGED response

Init ==
  /\ currentScore = 0
  /\ isLiked = FALSE
  /\ called = FALSE
  /\ result = 0
  /\ newScore = 0
  /\ otherScore = 0
  /\ otherResult = 0
  /\ twice = 0
  /\ probability = 0
  /\ otherProbability = 0
  /\ profiles = <<>>
  /\ credits = <<>>
  /\ likes = {}
  /\ matches = <<>>
  /\ req = [r \in Slots |-> Idle]
  /\ response = NoResponse
  /\ started = 0
  /\ now = 0
  /\ candidates = NoCandidates
  /\ likedPairs = {}

\* The server accepts one of `requests` (kind, user, target, body) as long
\* as it has accepted fewer than `limit`.  The handler of POST /api/profiles
\* starts with its own lookup, PUT /api/profiles/:id with getProfile(id),
\* every other handler with getProfileByUserId.
Accept(r, limit, requests) ==
  /\ req[r].pc = "idle"
  /\ \A q \in Slots : q < r => req[q].pc # "idle"
  /\ started < limit
  /\ started' = started + 1
  /\ \E request \in requests :
       req' = [req EXCEPT ![r] =
                 [Idle EXCEPT !.pc = IF request.kind = "create" THEN "cpCheck"
                                     ELSE IF request.kind = "update" THEN "upGetProfile"
                                     ELSE "getProfile",
                              !.kind = request.kind, !.user = request.user,
                              !.target = request.target, !.body = request.body]]
  /\ UNCHANGED <<fnVars, auxVars, dbVars, response>>

\* The body of a creation request: the profile's fields, with or without a
\* score of the client's choice.
CreateBodies ==
  {[gender |-> "female", interestedIn |-> "everyone"],
   [gender |-> "female", interestedIn |-> "everyone", score |-> 100]}

\* POST /api/profiles, POST /api/matches/like/:id and
\* POST /api/matches/dislike/:id, from every signed-in user.
SwipeRequests ==
  [kind : {"create"}, user : Users, target : {0}, body : CreateBodies]
    \cup [kind : {"like", "dislike"}, user : Users, target : TargetIds,
          body : {NoBody}]

Start(r) == Accept(r, MaxRequests, SwipeRequests)

\* POST /api/profiles: storage.getProfileByUserId, then the body is parsed;
\* gender and interestedIn are required.
CpCheck(r) ==
  /\ req[r].pc = "cpCheck"
  /\ LET profileData == insertProfileSchema(req[r].body)
     IN  IF profilesOfUser(req[r].user) # {}
           THEN Respond(r, 400, "Profile already exists", FALSE)
           ELSE IF ~({"gender", "interestedIn"} \subseteq DOMAIN profileData)
             THEN Respond(r, 400, "Invalid profile data", FALSE)
             ELSE Goto(r, "cpInsertProfile")
  /\ UNCHANGED <<fnVars, auxVars, dbVars, started>>

\* createProfile(profileData, userId): insert into profiles the parsed
\* fields and the user id; user_id is unique.
CpInsertProfile(r) ==
  /\ req[r].pc = "cpInsertProfile"
  /\ IF profilesOfUser(req[r].user) # {}
       THEN /\ Respond(r, 500, "duplicate key", FALSE)
            /\ UNCHANGED profiles
       ELSE LET id == Cardinality(ProfileIds) + 1
            IN  /\ profiles' = profiles @@
                     (id :> newProfileRow(insertProfileSchema(req[r].body),
                                          req[r].user))
                /\ req' = [req EXCEPT ![r].pc = "cpInsertCredits",
                                      ![r].profileId = id]
                /\ UNCHANGED response
  /\ UNCHANGED <<fnVars, auxVars, credits, likes, matches, started>>

\* createProfile: insert into credits, then the 201 response.
CpInsertCredits(r) ==
  /\ req[r].pc = "cpInsertCredits"
  /\ credits' = credits @@
       (req[r].profileId :> [amount |-> DefaultCredits, lastRefreshed |-> now])
  /\ Respond(r, 201, "", FALSE)
  /\ UNCHANGED <<fnVars, auxVars, profiles, likes, matches, started>>

\* like, dislike and the reads of the credits:
\* storage.getProfileByUserId(req.user.id).
GetProfile(r) ==
  /\ req[r].pc = "getProfile"
  /\ IF profilesOfUser(req[r].user) = {}
       THEN Respond(r, 404, "Profile not found", FALSE)
       ELSE /\ req' = [req EXCEPT
                 ![r].profileId = CHOOSE id \in profilesOfUser(req[r].user) : TRUE,
                 ![r].pc = IF req[r].kind = "like" THEN "getCredits"
                           ELSE IF req[r].kind = "dislike" THEN "insertLike"
                           ELSE "rcGetCredits"]
            /\ UNCHANGED response
  /\ UNCHANGED <<fnVars, auxVars, dbVars, started>>

\* The check of the balance with amount < 0 in place of amount <= 0.
GetCredits_BelowZero(r) ==
  /\ req[r].pc = "getCredits"
  /\ IF \/ req[r].profileId \notin DOMAIN credits
        \/ credits[req[r].profileId].amount < 0
       THEN Respond(r, 400, "Not enough credits", FALSE)
       ELSE Goto(r, "useCreditRead")
  /\ UNCHANGED <<fnVars, auxVars, dbVars, started>>

\* like: storage.getCredits and the check of the balance.
GetCredits(r) ==
  /\ req[r].pc = "getCredits"
  /\ IF \/ req[r].profileId \notin DOMAIN credits
        \/ credits[req[r].profileId].amount <= 0
       THEN Respond(r, 400, "Not enough credits", FALSE)
       ELSE Goto(r, "useCreditRead")
  /\ UNCHANGED <<fnVars, auxVars, dbVars, started>>

\* useCredit: select the credits row.
UseCreditRead(r) ==
  /\ req[r].pc = "useCreditRead"
  /\ IF \/ req[r].profileId \notin DOMAIN credits
        \/ credits[req[r].profileId].amount <= 0
       THEN Respond(r, 500, "No credits available", FALSE)
       ELSE /\ req' = [req EXCEPT ![r].amount = credits[req[r].profileId].amount,
                                  ![r].pc = "useCreditWrite"]
            /\ UNCHANGED response
  /\ UNCHANGED <<fnVars, auxVars, dbVars, started>>

\* useCredit: update credits set amount = userCredits.amount - 1.
UseCreditWrite(r) ==
  /\ req[r].pc = "useCreditWrite"
  /\ credits' = [credits EXCEPT ![req[r].profileId].amount = req[r].amount - 1]
  /\ Goto(r, "insertLike")
  /\ UNCHANGED <<fnVars, auxVars, profiles, likes, matches, started>>

\* likeProfile and dislikeProfile: insert into likes (likerId, likedId).
\* liked_id references profiles.id.
InsertLike(r) ==
  /\ req[r].pc = "insertLike"
  /\ IF req[r].target \notin ProfileIds
       THEN /\ Respond(r, 500, "foreign key violation", FALSE)
            /\ UNCHANGED likes
            /\ UNCHANGED likedPairs
       ELSE /\ likes' = likes \cup {<<req[r].profileId, req[r].target>>}
            /\ likedPairs' = IF req[r].kind = "like"
                 THEN likedPairs \cup {<<req[r].profileId, req[r].target>>}
                 ELSE likedPairs
            /\ Goto(r, "scoreRead")
  /\ UNCHANGED <<fnVars, now, candidates, profiles, credits, matches, started>>

\* updateScore: select the profile.
ScoreRead(r) ==
  /\ req[r].pc = "scoreRead"
  /\ IF req[r].target \notin ProfileIds
       THEN Respond(r, 500, "Profile not found", FALSE)
       ELSE /\ req' = [req EXCEPT
                 ![r].readScore = profiles[req[r].target].score,
                 ![r].pc = "scoreWrite"]
            /\ UNCHANGED response
  /\ UNCHANGED <<fnVars, auxVars, dbVars, started>>

\* updateScore with an update that lacks its where clause: update profiles
\* set score = newScore.
ScoreWrite_AllRows(r) ==
  /\ req[r].pc = "scoreWrite"
  /\ LET value == updateScoreValue(req[r].readScore, 1, req[r].kind = "like")
     IN  \/ /\ ~IsIntegral(value)
            /\ Respond(r, 500, "invalid input syntax for type integer", FALSE)
            /\ UNCHANGED profiles
         \/ \E stored \in IntegerColumn(value) :
              /\ profiles' = [id \in ProfileIds |->
                                [profiles[id] EXCEPT !.score = stored]]
              /\ IF req[r].kind = "like"
                   THEN /\ req' = [req EXCEPT ![r].updatedScore = stored,
                                              ![r].pc = "mutualLike"]
                        /\ UNCHANGED response
                   ELSE Respond(r, 200, "Profile disliked", FALSE)
  /\ UNCHANGED <<fnVars, auxVars, credits, likes, matches, started>>

\* updateScore: compute newScore from the profile read before, and
\* update profiles set score = newScore where id = profileId.
ScoreWrite(r) ==
  /\ req[r].pc = "scoreWrite"
  /\ LET value == updateScoreValue(req[r].readScore, 1, req[r].kind = "like")
     IN  \/ /\ ~IsIntegral(value)
            /\ Respond(r, 500, "invalid input syntax for type integer", FALSE)
            /\ UNCHANGED profiles
         \/ \E stored \in IntegerColumn(value) :
              /\ profiles' = [profiles EXCEPT ![req[r].target].score = stored]
              /\ IF req[r].kind = "like"
                   THEN /\ req' = [req EXCEPT ![r].updatedScore = stored,
                                              ![r].pc = "mutualLike"]
                        /\ UNCHANGED response
                   ELSE Respond(r, 200, "Profile disliked", FALSE)
  /\ UNCHANGED <<fnVars, auxVars, credits, likes, matches, started>>

\* likeProfile: select the like of likedId for likerId.
MutualLike(r) ==
  /\ req[r].pc = "mutualLike"
  /\ IF <<req[r].target, req[r].profileId>> \in likes
       THEN Goto(r, "insertMatch")
       ELSE Respond(r, 200, "", FALSE)
  /\ UNCHANGED <<fnVars, auxVars, dbVars, started>>

\* likeProfile: insert into matches (profileId1, profileId2).
InsertMatch(r) ==
  /\ req[r].pc = "insertMatch"
  /\ matches' = Append(matches, <<req[r].profileId, req[r].target>>)
  /\ Respond(r, 200, "", TRUE)
  /\ UNCHANGED <<fnVars, auxVars, profiles, credits, likes, started>>

Next ==
  \E r \in Slots :
    \/ Start(r)
    \/ CpCheck(r)
    \/ CpInsertProfile(r)
    \/ CpInsertCredits(r)
    \/ GetProfile(r)
    \/ GetCredits(r)
    \/ UseCreditRead(r)
    \/ UseCreditWrite(r)
    \/ InsertLike(r)
    \/ ScoreRead(r)
    \/ ScoreWrite(r)
    \/ MutualLike(r)
    \/ InsertMatch(r)

Spec == Init /\ [][Next]_vars

\* ------------------------------------- profile updates and reads of credits

\* PUT /api/profiles/:id: storage.getProfile(id), the owner check, and the
\* body parsed with insertProfileSchema.partial().
UpGetProfile(r) ==
  /\ req[r].pc = "upGetProfile"
  /\ IF req[r].target \notin ProfileIds
       THEN Respond(r, 404, "Profile not found", FALSE)
       ELSE IF profiles[req[r].target].userId # req[r].user
         THEN Respond(r, 403, "Forbidden", FALSE)
         ELSE Goto(r, "upWrite")
  /\ UNCHANGED <<fnVars, auxVars, dbVars, started>>

\* updateProfile(id, profileData): update profiles set the parsed fields.
UpWrite(r) ==
  /\ req[r].pc = "upWrite"
  /\ profiles' = [profiles EXCEPT ![req[r].target] =
                    updatedProfileRow(@, insertProfileSchema(req[r].body))]
  /\ Respond(r, 200, "", FALSE)
  /\ UNCHANGED <<fnVars, auxVars, credits, likes, matches, started>>

\* GET /api/credits and GET /api/profiles/me: storage.getCredits, and the
\* comparison of lastRefreshed with the start of today.
RcGetCredits(r) ==
  /\ req[r].pc = "rcGetCredits"
  /\ LET today == startOfDay(now)
     IN  IF /\ req[r].profileId \in DOMAIN credits
            /\ credits[req[r].profileId].lastRefreshed < today
           THEN Goto(r, "rcRefresh")
           ELSE IF req[r].kind = "me" THEN Goto(r, "rcReturn")
                                      ELSE Respond(r, 200, "", FALSE)
  /\ UNCHANGED <<fnVars, auxVars, dbVars, started>>

\* refreshCredits: update credits set amount = 10, lastRefreshed = now.
RcRefresh(r) ==
  /\ req[r].pc = "rcRefresh"
  /\ credits' = [credits EXCEPT ![req[r].profileId] =
                   [amount |-> RefreshedCredits, lastRefreshed |-> now]]
  /\ IF req[r].kind = "me" THEN Goto(r, "rcReturn")
                            ELSE Respond(r, 200, "", FALSE)
  /\ UNCHANGED <<fnVars, auxVars, profiles, likes, matches, started>>

\* GET /api/profiles/me: storage.getCredits once more, then the response.
RcReturn(r) ==
  /\ req[r].pc = "rcReturn"
  /\ Respond(r, 200, "", FALSE)
  /\ UNCHANGED <<fnVars, auxVars, dbVars, started>>

\* The clock advances.
Tick ==
  /\ now < MaxTime
  /\ now' = now + 1
  /\ UNCHANGED <<fnVars, dbVars, req, response, started, candidates, likedPairs>>

\* The body of an update request: a new interestedIn and a score of the
\* client's choice.
UpdateBodies == {[interestedIn |-> "male", score |-> 100]}

\* Every request of SwipeRequests, PUT /api/profiles/:id, GET /api/credits
\* and GET /api/profiles/me, from every signed-in user.
ProfileRequests ==
  SwipeRequests
    \cup [kind : {"update"}, user : Users, target : TargetIds,
          body : UpdateBodies]
    \cup [kind : {"credits", "me"}, user : Users, target : {0},
          body : {NoBody}]

StartProfile(r) == Accept(r, MaxProfileRequests, ProfileRequests)

NextProfile ==
  \/ Tick
  \/ \E r \in Slots :
       \/ StartProfile(r)
       \/ CpCheck(r)
       \/ CpInsertProfile(r)
       \/ CpInsertCredits(r)
       \/ UpGetProfile(r)
       \/ UpWrite(r)
       \/ GetProfile(r)
       \/ GetCredits(r)
       \/ UseCreditRead(r)
       \/ UseCreditWrite(r)
       \/ InsertLike(r)
       \/ ScoreRead(r)
       \/ ScoreWrite(r)
       \/ MutualLike(r)
       \/ InsertMatch(r)
       \/ RcGetCredits(r)
       \/ RcRefresh(r)
       \/ RcReturn(r)

SpecProfile == Init /\ [][NextProfile]_vars

\* The requests of one account that waits for each response before it sends
\* its next request: it creates its profile, and likes its own profile or
\* one that does not exist.
CreditRequests ==
  [kind : {"create"}, user : {1}, target : {0},
   body : {[gender |-> "female", interestedIn |-> "everyone"]}]
    \cup [kind : {"like"}, user : {1}, target : {0, 1}, body : {NoBody}]

StartCredits(r) ==
  /\ \A q \in Slots : req[q].pc = "idle"
  /\ Accept(r, MaxCreditRequests, CreditRequests)

NextCredits ==
  \E r \in Slots :
    \/ StartCredits(r)
    \/ CpCheck(r)
    \/ CpInsertProfile(r)
    \/ CpInsertCredits(r)
    \/ GetProfile(r)
    \/ GetCredits(r)
    \/ UseCreditRead(r)
    \/ UseCreditWrite(r)
    \/ InsertLike(r)
    \/ ScoreRead(r)
    \/ ScoreWrite(r)
    \/ MutualLike(r)
    \/ InsertMatch(r)

SpecCredits == Init /\ [][NextCredits]_vars

\* ------------------------------------------- the storage layer, call by call

\* updateScore(profileId, isLiked), as one call: the profiles table after it,
\* or the table as it was when the write is refused.  The second component
\* tells whether updateScore returned (TRUE) or threw (FALSE).
updateScore(profileId, liked) ==
  LET value == updateScoreValue(profiles[profileId].score, 1, liked)
  IN  {<<[profiles EXCEPT ![profileId].score = stored], TRUE>> :
         stored \in IntegerColumn(value)}
      \cup (IF IsIntegral(value) THEN {} ELSE {<<profiles, FALSE>>})

\* storage.createProfile(profile, userId).
createProfile(profile, userId) ==
  /\ profilesOfUser(userId) = {}
  /\ LET id == Cardinality(ProfileIds) + 1
     IN  /\ profiles' = profiles @@ (id :> newProfileRow(profile, userId))
         /\ credits' = credits @@
              (id :> [amount |-> DefaultCredits, lastRefreshed |-> now])
  /\ UNCHANGED <<fnVars, auxVars, likes, matches, req, response, started>>

\* storage.likeProfile(likerId, likedId).
likeProfile(likerId, likedId) ==
  /\ likerId \in ProfileIds
  /\ likedId \in ProfileIds
  /\ likes' = likes \cup {<<likerId, likedId>>}
  /\ \E after \in updateScore(likedId, TRUE) :
       /\ profiles' = after[1]
       /\ IF after[2] /\ <<likedId, likerId>> \in likes'
            THEN /\ Len(matches) < MaxMatches
                 /\ matches' = Append(matches, <<likerId, likedId>>)
            ELSE UNCHANGED matches
  /\ UNCHANGED <<fnVars, auxVars, credits, req, response, started>>

\* storage.dislikeProfile(likerId, dislikedId).
dislikeProfile(likerId, dislikedId) ==
  /\ likerId \in ProfileIds
  /\ dislikedId \in ProfileIds
  /\ likes' = likes \cup {<<likerId, dislikedId>>}
  /\ \E after \in updateScore(dislikedId, FALSE) : profiles' = after[1]
  /\ UNCHANGED <<fnVars, auxVars, credits, matches, req, response, started>>

NextStorage ==
  \/ \E u \in Users, body \in CreateBodies :
       createProfile(insertProfileSchema(body), u)
  \/ \E likerId \in TargetIds, likedId \in TargetIds : likeProfile(likerId, likedId)
  \/ \E likerId \in TargetIds, likedId \in TargetIds : dislikeProfile(likerId, likedId)

SpecStorage == Init /\ [][NextStorage]_vars

\* ------------------------------------------------------ candidate queries

\* The orders a query may return the rows of `ids` in: every sequence that
\* holds each id once.
Orderings(ids) ==
  {order \in [1 .. Cardinality(ids) -> ids] :
     \A i \in DOMAIN order, j \in DOMAIN order : i # j => order[i] # order[j]}

\* .limit(limit).offset(offset)
Slice(order, limit, offset) ==
  SubSeq(order, offset + 1, Min(Len(order), offset + limit))

\* The profiles the where clause of getPotentialMatches selects.  The query
\* is built with where(not self and not already liked); when interestedIn
\* is a gender, where(gender = interestedIn) is called on the built query.
\* A query holds one where clause, and a second call of where() sets it
\* anew: the gender condition then stands alone.
potentialMatchesWhere(profileId) ==
  LET userProfile == profiles[profileId]
      likedIds == {like[2] : like \in {l \in likes : l[1] = profileId}}
  IN  IF userProfile.interestedIn # "everyone"
        THEN {id \in ProfileIds : profiles[id].gender = userProfile.interestedIn}
        ELSE {id \in ProfileIds : id # profileId /\ id \notin likedIds}

\* getPotentialMatches with orderBy(asc(profiles.score)).
getPotentialMatches_Ascending(profileId, limit, offset) ==
  IF profileId \notin ProfileIds THEN {<<>>}
  ELSE LET ordered == {order \in Orderings(potentialMatchesWhere(profileId)) :
                        \A i \in DOMAIN order, j \in DOMAIN order :
                          i < j => profiles[order[i]].score <= profiles[order[j]].score}
       IN  {[k \in DOMAIN Slice(order, limit, offset) |->
               LET id == Slice(order, limit, offset)[k]
               IN  [id |-> id, score |-> profiles[id].score,
                    gender |-> profiles[id].gender]] : order \in ordered}

\* storage.getPotentialMatches(profileId, limit, offset): the results the
\* query may give, rows of (id, gender, score) ordered by desc(score); the
\* database orders rows of equal score as it likes.
getPotentialMatches(profileId, limit, offset) ==
  IF profileId \notin ProfileIds THEN {<<>>}
  ELSE LET ordered == {order \in Orderings(potentialMatchesWhere(profileId)) :
                        \A i \in DOMAIN order, j \in DOMAIN order :
                          i < j => profiles[order[i]].score >= profiles[order[j]].score}
       IN  {[k \in DOMAIN Slice(order, limit, offset) |->
               LET id == Slice(order, limit, offset)[k]
               IN  [id |-> id, score |-> profiles[id].score,
                    gender |-> profiles[id].gender]] : order \in ordered}

\* GET /api/matches/potential answered for profileId.
GetPotentialMatches(profileId, limit, offset) ==
  /\ \E rows \in getPotentialMatches(profileId, limit, offset) :
       candidates' = [profileId |-> profileId, limit |-> limit,
                      offset |-> offset, rows |-> rows]
  /\ UNCHANGED <<fnVars, dbVars, req, response, started, now, likedPairs>>

\* The bodies of the creation requests of the candidates.
CandidateBodies ==
  {[gender |-> "male", interestedIn |-> "everyone"],
   [gender |-> "female", interestedIn |-> "everyone"],
   [gender |-> "female", interestedIn |-> "female"]}

\* limit and offset of the candidate queries: the defaults of the route
\* (10 and 0) and a page of one row.
Limits == {1, 10}

Offsets == {0, 1}

\* Accounts create their profiles one after the other, ask for candidates,
\* and like or dislike a profile they were shown and have not swiped yet.
NextCandidates ==
  \/ \E body \in CandidateBodies :
       /\ Cardinality(ProfileIds) < MaxCandidates
       /\ createProfile(insertProfileSchema(body), Cardinality(ProfileIds) + 1)
  \/ \E profileId \in ProfileIds, limit \in Limits, offset \in Offsets :
       GetPotentialMatches(profileId, limit, offset)
  \/ \E k \in DOMAIN candidates.rows :
       /\ Cardinality(likes) < MaxSwipes
       /\ <<candidates.profileId, candidates.rows[k].id>> \notin likes
       /\ likeProfile(candidates.profileId, candidates.rows[k].id)
  \/ \E k \in DOMAIN candidates.rows :
       /\ Cardinality(likes) < MaxSwipes
       /\ <<candidates.profileId, candidates.rows[k].id>> \notin likes
       /\ dislikeProfile(candidates.profileId, candidates.rows[k].id)

SpecCandidates == Init /\ [][NextCandidates]_vars

\* ------------------------------------------- the scoring functions, applied

ArgFull == 100 * ArgScale

ResFull == 100 * ArgFull

ArgValues == (0 - ArgMargin * ArgScale) .. (ArgFull + ArgMargin * ArgScale)

InRange == currentScore >= 0 /\ currentScore <= ArgFull

InitFn ==
  /\ currentScore \in ArgValues
  /\ isLiked \in BOOLEAN
  /\ called = FALSE
  /\ result = 0
  /\ newScore = 0
  /\ otherScore = 0
  /\ otherResult = 0
  /\ twice = 0
  /\ probability = 0
  /\ otherProbability = 0
  /\ profiles = <<>>
  /\ credits = <<>>
  /\ likes = {}
  /\ matches = <<>>
  /\ req = [r \in Slots |-> Idle]
  /\ response = NoResponse
  /\ started = 0
  /\ now = 0
  /\ candidates = NoCandidates
  /\ likedPairs = {}

\* One swipe outcome applied to one score value: by the shared scoring module,
\* once and a second time to the first result, and by the server's
\* updateScore; and the show probability of the same score value.
Evaluate ==
  /\ called = FALSE
  /\ called' = TRUE
  /\ result' = calculateNewScore(currentScore, ArgScale, isLiked)
  /\ twice' = calculateNewScore(result', 100 * ArgScale, isLiked)
  /\ newScore' = updateScoreValue(currentScore, ArgScale, isLiked)
  /\ probability' = calculateShowProbability(currentScore, ArgScale)
  /\ UNCHANGED <<currentScore, isLiked, otherScore, otherResult,
                 otherProbability, dbVars, req, response, started, auxVars>>

NextFn == Evaluate

SpecFn == InitFn /\ [][NextFn]_vars

\* --------------------------------- the scoring functions, applied to a pair

\* The scores of the range [0,100], at ArgScale.
RangeValues == 0 .. ArgFull

InitPair ==
  /\ currentScore \in RangeValues
  /\ otherScore \in RangeValues
  /\ isLiked \in BOOLEAN
  /\ called = FALSE
  /\ result = 0
  /\ newScore = 0
  /\ otherResult = 0
  /\ twice = 0
  /\ probability = 0
  /\ otherProbability = 0
  /\ profiles = <<>>
  /\ credits = <<>>
  /\ likes = {}
  /\ matches = <<>>
  /\ req = [r \in Slots |-> Idle]
  /\ response = NoResponse
  /\ started = 0
  /\ now = 0
  /\ candidates = NoCandidates
  /\ likedPairs = {}

\* The same swipe outcome applied to two score values, and their show
\* probabilities.
EvaluatePair ==
  /\ called = FALSE
  /\ called' = TRUE
  /\ result' = calculateNewScore(currentScore, ArgScale, isLiked)
  /\ otherResult' = calculateNewScore(otherScore, ArgScale, isLiked)
  /\ newScore' = updateScoreValue(currentScore, ArgScale, isLiked)
  /\ probability' = calculateShowProbability(currentScore, ArgScale)
  /\ otherProbability' = calculateShowProbability(otherScore, ArgScale)
  /\ UNCHANGED <<currentScore, isLiked, otherScore, twice,
                 dbVars, req, response, started, auxVars>>

NextPair == EvaluatePair

SpecPair == InitPair /\ [][NextPair]_vars

\* ------------------------------------------------- claims on SpecFn

\* The argument as a number of points, and results as numbers of points.
Points(p) == p * ArgScale

ResPoints(p) == p * 100 * ArgScale

Clamped(x) == IF x < 0 THEN 0 ELSE IF x > ArgFull THEN ArgFull ELSE x

\* C1: for every numeric currentScore, also below 0 and above 100, and for
\* both outcomes, calculateNewScore returns a value in [0,100].
C1_ResultInRange == called => (result >= 0 /\ result <= ResFull)

C1_Witness == called /\ currentScore > ArgFull /\ ~isLiked /\ result < ResFull

\* C3: for every score s in [0,100], a like returns
\* min(100, n + max(0.5, 3 * (1 - n/100))), n being s clamped to [0,100].
C3_LikeFormula ==
  (called /\ isLiked /\ InRange) =>
    LET n == Clamped(currentScore)
        linear == 3 * ArgFull - 3 * n          \* 3 * (1 - n/100), at 100 * ArgScale
        half == ResPoints(1) \div 2            \* 0.5
        boost == IF linear >= half THEN linear ELSE half
        sum == 100 * n + boost
    IN  result = (IF sum <= ResFull THEN sum ELSE ResFull)

C3_Witness ==
  /\ called /\ isLiked /\ InRange
  /\ 3 * ArgFull - 3 * currentScore < 50 * ArgScale    \* the floor 0.5 decides
  /\ result = 100 * currentScore + 50 * ArgScale
  /\ result < ResFull

\* C4: for every score s in [0,100], a dislike returns
\* max(0, n - max(0.3, 2 * n/100)), n being s clamped to [0,100].
C4_DislikeFormula ==
  (called /\ ~isLiked /\ InRange) =>
    LET n == Clamped(currentScore)
        linear == 2 * n                        \* 2 * n/100, at 100 * ArgScale
        floor == (3 * ResPoints(1)) \div 10    \* 0.3
        penalty == IF linear >= floor THEN linear ELSE floor
        diff == 100 * n - penalty
    IN  result = (IF diff >= 0 THEN diff ELSE 0)

C4_Witness ==
  /\ called /\ ~isLiked /\ InRange
  /\ 2 * currentScore < 30 * ArgScale                  \* the floor 0.3 decides
  /\ result = 100 * currentScore - 30 * ArgScale
  /\ result > 0

\* C5: for every score s in [0,100], a like never decreases the score and
\* never pushes it past 100: s <= calculateNewScore(s, liked) <= 100.
C5_LikeNeverDecreases ==
  (called /\ isLiked /\ InRange) =>
    (100 * currentScore <= result /\ result <= ResFull)

C5_Witness ==
  called /\ isLiked /\ currentScore = ArgFull /\ result = 100 * currentScore

\* C6: for every score s in [0,100], a dislike never increases the score and
\* never pushes it below 0: 0 <= calculateNewScore(s, disliked) <= s.
C6_DislikeNeverIncreases ==
  (called /\ ~isLiked /\ InRange) =>
    (0 <= result /\ result <= 100 * currentScore)

C6_Witness ==
  called /\ ~isLiked /\ currentScore = 0 /\ result = 100 * currentScore

\* C7: an out-of-range input is clamped before the update is applied:
\* calculateNewScore(x, o) = calculateNewScore(min(100, max(0, x)), o) for
\* every x and o; calculateNewScore(150, disliked) = 98.0 and
\* calculateNewScore(-10, liked) = 3.0.
C7_InputClamped ==
  called =>
    /\ result = calculateNewScore(Clamped(currentScore), ArgScale, isLiked)
    /\ (currentScore = Points(150) /\ ~isLiked) => result = ResPoints(98)
    /\ (currentScore = Points(0 - 10) /\ isLiked) => result = ResPoints(3)

C7_Witness ==
  called /\ currentScore = Points(150) /\ ~isLiked /\ result = ResPoints(98)

\* C8: the value updateScore writes for a profile whose stored score is v
\* equals calculateNewScore(v, o), for every v, in range or not, and every
\* outcome o.
C8_ServerAgreesWithShared == called => newScore = result

\* C10: calculateNewScore(0, liked) = 3.0, calculateNewScore(100, liked) = 100,
\* calculateNewScore(100, disliked) = 98.0, calculateNewScore(0, disliked) = 0.
C10_BoundaryValues ==
  called =>
    /\ (currentScore = Points(0) /\ isLiked) => result = ResPoints(3)
    /\ (currentScore = Points(100) /\ isLiked) => result = ResPoints(100)
    /\ (currentScore = Points(100) /\ ~isLiked) => result = ResPoints(98)
    /\ (currentScore = Points(0) /\ ~isLiked) => result = ResPoints(0)

C10_Witness ==
  called /\ currentScore = Points(0) /\ isLiked /\ result = ResPoints(3)

\* C13 as stated: every like moves the score upward: for every score s in
\* [0,100], calculateNewScore(s, liked) > s.
C13_LikeAlwaysRaises ==
  (called /\ isLiked /\ InRange) => result > 100 * currentScore

\* C13, amended: for every score s in [0,100) a like moves the score upward,
\* calculateNewScore(s, liked) > s; at s = 100 the score stays 100.
C13_LikeRaisesBelowTop ==
  (called /\ isLiked /\ InRange) =>
    IF currentScore < ArgFull
      THEN result > 100 * currentScore
      ELSE result = ResFull

C13_Witness ==
  /\ called /\ isLiked /\ InRange
  /\ currentScore = ArgFull - 1
  /\ result > 100 * currentScore

\* C14 as stated: every dislike moves the score downward: for every score s
\* in [0,100], calculateNewScore(s, disliked) < s.
C14_DislikeAlwaysLowers ==
  (called /\ ~isLiked /\ InRange) => result < 100 * currentScore

\* C14, amended: for every score s in (0,100] a dislike moves the score
\* downward, calculateNewScore(s, disliked) < s; at s = 0 the score stays 0.
C14_DislikeLowersAboveBottom ==
  (called /\ ~isLiked /\ InRange) =>
    IF currentScore > 0
      THEN result < 100 * currentScore
      ELSE result = 0

C14_Witness ==
  /\ called /\ ~isLiked /\ InRange
  /\ currentScore = 1
  /\ result < 100 * currentScore

\* The probability p as calculateShowProbability returns it for an argument
\* at ArgScale, p being given in hundredths.
Probability(hundredths) == (hundredths * ArgFull * ArgFull) \div 10

C16_ShowProbabilityInRange ==
  called => (probability >= Probability(20) /\ probability <= Probability(80))

C16_Witness ==
  called /\ currentScore > ArgFull /\ probability = Probability(20)

\* C18 as stated: for every score s in [0,100] and each outcome o, applying
\* calculateNewScore twice gives another value than applying it once.
C18_NeverIdempotent ==
  (called /\ InRange) => twice # 100 * result

\* C18, amended: for every score s in [0,100] and each outcome o, applying
\* calculateNewScore twice gives another value than applying it once, unless
\* the first application reaches the end of the range (100 for a like, 0 for
\* a dislike), where the second application changes nothing.
C18_IdempotentOnlyAtTheEnds ==
  (called /\ InRange) =>
    IF (isLiked /\ result = ResFull) \/ (~isLiked /\ result = 0)
      THEN twice = 100 * result
      ELSE twice # 100 * result

C18_Witness ==
  /\ called /\ InRange /\ isLiked
  /\ result < ResFull
  /\ twice > 100 * result
  /\ twice < 100 * ResFull

\* ------------------------------------------------- claims on SpecPair

\* C17: calculateShowProbability is non-increasing over [0,100]: for all
\* scores s1 <= s2 in [0,100], the probability of s1 is at least that of s2.
C17_ShowProbabilityMonotone ==
  (called /\ currentScore <= otherScore) => probability >= otherProbability

C17_Witness ==
  /\ called /\ currentScore < otherScore
  /\ probability > otherProbability
  /\ otherProbability > Probability(20)


\* C11: diminishing returns: for all scores s1 < s2 in [0,100], the increase
\* a like applies at s1 is at least the increase a like applies at s2.
C11_DiminishingReturns ==
  (called /\ isLiked /\ currentScore < otherScore) =>
    result - 100 * currentScore >= otherResult - 100 * otherScore

C11_Witness ==
  /\ called /\ isLiked /\ currentScore < otherScore
  /\ result - 100 * currentScore > otherResult - 100 * otherScore
  /\ otherResult < ResFull

C2_StoredScoreInRange ==
  \A id \in ProfileIds : profiles[id].score >= 0 /\ profiles[id].score <= 100

C2_Witness ==
  \E id \in ProfileIds :
    /\ profiles[id].score = 100
    /\ \E liker \in ProfileIds : <<liker, id>> \in likes

\* One score update applied to a stored score, the write not being refused.
OneUpdate(score, liked) == IntegerColumn(updateScoreValue(score, 1, liked))

\* C19: each swipe applies one score update to the target profile and none
\* to the acting profile: over every step likeProfile(A, B) or
\* dislikeProfile(A, B), for every pair of profile ids A and B the endpoints
\* accept, B's stored score moves by one scoring step (or stays, when the
\* write is refused) and A's own stored score is unchanged.
C19_SwipeUpdatesTargetOnly ==
  [][\A A \in ProfileIds, B \in ProfileIds :
       (likeProfile(A, B) \/ dislikeProfile(A, B)) =>
         /\ profiles'[B].score \in OneUpdate(profiles[B].score, TRUE)
                                    \cup OneUpdate(profiles[B].score, FALSE)
                                    \cup {profiles[B].score}
         /\ profiles'[A].score = profiles[A].score]_vars

\* ------------------------------------------------------- claims on Spec

\* The handler of slot r has written the score and is still running.
AfterScoreWrite(r) == req[r].pc \in {"mutualLike", "insertMatch"}

\* C9: when two swipes targeting the same profile are processed concurrently,
\* the final stored score is the result of applying the two score updates one
\* after the other in some order: no update is lost.
C9_NoLostUpdate ==
  \A a \in Slots, b \in Slots :
    (/\ a # b
     /\ AfterScoreWrite(a)
     /\ AfterScoreWrite(b)
     /\ req[a].target = req[b].target) =>
       \/ /\ req[a].updatedScore \in OneUpdate(req[a].readScore, TRUE)
          /\ req[b].readScore = req[a].updatedScore
          /\ profiles[req[b].target].score = req[b].updatedScore
       \/ /\ req[b].updatedScore \in OneUpdate(req[b].readScore, TRUE)
          /\ req[a].readScore = req[b].updatedScore
          /\ profiles[req[a].target].score = req[a].updatedScore

\* C20: score updates of different profiles are independent: the write of
\* updateScore on profile P leaves the row of every other profile as it was,
\* and leaves every other request as it was; so an update of another profile
\* that runs at the same time reads, computes and writes the same values
\* whether its read and its write come before or after the write on P.
C20_UpdatesIndependent ==
  [][\A b \in Slots :
       (req[b].pc = "scoreWrite" /\ req'[b] # req[b]) =>
         /\ \A id \in ProfileIds \ {req[b].target} : profiles'[id] = profiles[id]
         /\ \A a \in Slots \ {b} :
              /\ req'[a] = req[a]
              /\ (req[a].pc \in {"scoreRead", "scoreWrite"}
                    /\ req[a].target # req[b].target) =>
                   profiles'[req[a].target].score = profiles[req[a].target].score]_vars

C20_Witness ==
  \E a \in Slots, b \in Slots :
    /\ AfterScoreWrite(a)
    /\ AfterScoreWrite(b)
    /\ req[a].target # req[b].target
    /\ req[a].updatedScore \in OneUpdate(req[a].readScore, TRUE)
    /\ req[b].updatedScore \in OneUpdate(req[b].readScore, TRUE)
    /\ req[a].updatedScore # req[a].readScore
    /\ profiles[req[a].target].score = req[a].updatedScore
    /\ profiles[req[b].target].score = req[b].updatedScore

\* C21: every newly created profile starts with score 70 and with 10
\* credits, whatever fields the creation request carries: every row that
\* enters the profiles table has score 70 and every row that enters the
\* credits table has amount 10.
C21_NewProfileStartsAtDefault ==
  [][/\ \A id \in DOMAIN profiles' \ DOMAIN profiles : profiles'[id].score = 70
     /\ \A id \in DOMAIN credits' \ DOMAIN credits : credits'[id].amount = 10]_vars

C21_Witness ==
  \E r \in Slots :
    /\ req[r].pc = "cpInsertCredits"
    /\ "score" \in DOMAIN req[r].body
    /\ req[r].body.score = 100
    /\ profiles[req[r].profileId].score = 70

\* C23: a match is a mutual like: every row of the matches table joins two
\* profiles each of which has liked the other; a dislike is not a like and
\* leads to no match.
C23_MatchIsMutualLike ==
  \A i \in DOMAIN matches :
    /\ <<matches[i][1], matches[i][2]>> \in likedPairs
    /\ <<matches[i][2], matches[i][1]>> \in likedPairs

\* The like request of slot r has taken its credit and is still running.
AfterUseCredit(r) ==
  /\ req[r].kind = "like"
  /\ req[r].pc \in {"insertLike", "scoreRead", "scoreWrite", "mutualLike",
                    "insertMatch"}

\* C26: each like consumes one credit of the liker, also when several like
\* requests of one profile are processed at the same time: when two like
\* requests of a profile have both taken their credit, the balance is two
\* or more below the balance the first of them found; and no balance is
\* ever below 0.
C26_OneCreditPerLike ==
  /\ \A id \in DOMAIN credits : credits[id].amount >= 0
  /\ \A a \in Slots, b \in Slots :
       (/\ a # b
        /\ AfterUseCredit(a)
        /\ AfterUseCredit(b)
        /\ req[a].profileId = req[b].profileId) =>
          credits[req[a].profileId].amount
            <= Max(req[a].amount, req[b].amount) - 2

\* C28: at most one match exists per unordered pair of profiles, and no
\* profile is matched with itself.
C28_OneMatchPerPair ==
  /\ \A i \in DOMAIN matches : matches[i][1] # matches[i][2]
  /\ \A i \in DOMAIN matches, j \in DOMAIN matches :
       i # j => {matches[i][1], matches[i][2]} # {matches[j][1], matches[j][2]}

\* C29: a like or dislike whose target profile does not exist ends in the
\* error "Profile not found" and leaves the stored state as it was before
\* the request: over the step that ends such a request, no like row of the
\* request is kept, and the balance of the liker is the one the request
\* found.
C29_MissingTargetChangesNothing ==
  [][\A r \in Slots :
       (/\ req[r].kind \in {"like", "dislike"}
        /\ req[r].pc \in {"insertLike", "scoreRead"}
        /\ req[r].target \notin ProfileIds
        /\ req'[r] # req[r]) =>
          /\ req'[r] = Idle
          /\ response'.message = "Profile not found"
          /\ <<req[r].profileId, req[r].target>> \notin likes'
          /\ req[r].kind = "like" =>
               credits'[req[r].profileId].amount = req[r].amount]_vars

\* ------------------------------------------------- claims on SpecProfile

\* C22: a profile's stored score is changed only by a swipe directed at it:
\* over every step that changes the score of a profile, the step is the
\* write of updateScore of a like or dislike request that targets this
\* profile; profile creation, profile update and the credit operations
\* leave every stored score as it was.
C22_ScoreChangedOnlyBySwipe ==
  [][\A id \in ProfileIds :
       profiles'[id].score # profiles[id].score =>
         \E r \in Slots :
           /\ req[r].kind \in {"like", "dislike"}
           /\ req[r].pc = "scoreWrite"
           /\ req[r].target = id
           /\ req'[r] # req[r]]_vars

\* An update whose body named a score has been applied (only an update sets
\* interestedIn to "male", and every update body names score 100).
C22_Witness ==
  \E id \in ProfileIds :
    /\ profiles[id].interestedIn = "male"
    /\ profiles[id].score = 70
    /\ response.kind = "update"
    /\ response.status = 200

\* C30: credits refresh once per day on read: a read of the profile or of
\* the credits goes on to refresh if and only if the last refresh was before
\* the start of the current day; the refresh happens only while the last
\* refresh is before the start of the current day, and it sets the balance
\* to 10 and records the current time; no other read changes the balance.
C30_RefreshOncePerDay ==
  [][\A r \in Slots :
       (req[r].kind \in {"credits", "me"} /\ req'[r] # req[r]) =>
         /\ req[r].pc = "rcGetCredits" =>
              /\ credits' = credits
              /\ req[r].profileId \in DOMAIN credits =>
                   (req'[r].pc = "rcRefresh"
                      <=> credits[req[r].profileId].lastRefreshed < startOfDay(now))
         /\ req[r].pc = "rcRefresh" =>
              /\ credits[req[r].profileId].lastRefreshed < startOfDay(now)
              /\ credits'[req[r].profileId] = [amount |-> 10, lastRefreshed |-> now]
         /\ req[r].pc \in {"getProfile", "rcReturn"} => credits' = credits]_vars

\* ------------------------------------------------- claims on SpecCredits

\* The profile of user u has no credits row or a balance of 0.
NoCreditsLeft(u) ==
  \E id \in profilesOfUser(u) :
    id \notin DOMAIN credits \/ credits[id].amount = 0

\* C24: likes are gated by credits: while the balance of the liker is 0 (or
\* it has no credits row), every step of its like request leaves the tables
\* as they are (no like row, no score change, no credit change), and the
\* check of the balance ends the request with 400 "Not enough credits".
C24_LikeGatedByCredits ==
  [][\A r \in Slots :
       (/\ req[r].kind = "like"
        /\ req[r].pc \in {"getProfile", "getCredits"}
        /\ NoCreditsLeft(req[r].user)
        /\ req'[r] # req[r]) =>
          /\ dbVars' = dbVars
          /\ req[r].pc = "getCredits" =>
               /\ req'[r] = Idle
               /\ response'.kind = "like"
               /\ response'.status = 400
               /\ response'.message = "Not enough credits"]_vars

C24_Witness ==
  /\ response.kind = "like"
  /\ response.status = 400
  /\ response.message = "Not enough credits"
  /\ \E id \in DOMAIN credits : id \in profilesOfUser(response.user)
                                    /\ credits[id].amount = 0

\* ---------------------------------------------- claims on SpecCandidates

\* C25: candidate selection orders strictly by raw score: over every call of
\* getPotentialMatches, the rows returned are in non-increasing order of the
\* stored score; and no candidate is left out or moved by a display weight:
\* a profile interested in everyone that asks for a page long enough gets
\* every other profile it has not swiped.
C25_CandidatesOrderedByScore ==
  [][candidates' # candidates =>
       LET rows == candidates'.rows
           asker == candidates'.profileId
       IN  /\ \A i \in DOMAIN rows, j \in DOMAIN rows :
                i < j => profiles[rows[i].id].score >= profiles[rows[j].id].score
           /\ (/\ profiles[asker].interestedIn = "everyone"
               /\ candidates'.offset = 0
               /\ candidates'.limit >= Cardinality(ProfileIds)) =>
                 {rows[i].id : i \in DOMAIN rows}
                   = {id \in ProfileIds \ {asker} : <<asker, id>> \notin likes}]_vars

C25_Witness ==
  /\ Len(candidates.rows) >= 2
  /\ candidates.rows[1].score > candidates.rows[2].score
  /\ profiles[candidates.profileId].interestedIn = "everyone"

\* C27: over every call of getPotentialMatches(P), no row returned is P
\* itself or a profile P has already liked or disliked, and when P's
\* interestedIn is a gender every row is of that gender.
C27_CandidatesExcludeSelfAndSwiped ==
  [][candidates' # candidates =>
       LET rows == candidates'.rows
           asker == candidates'.profileId
       IN  \A i \in DOMAIN rows :
             /\ rows[i].id # asker
             /\ <<asker, rows[i].id>> \notin likes
             /\ profiles[asker].interestedIn # "everyone" =>
                  rows[i].gender = profiles[asker].interestedIn]_vars

====
